---- MODULE Spec2Model ----
(***************************************************************************)
(* The OSC encoder of rosc (src/src/encoder.rs) as a state machine.        *)
(*                                                                         *)
(* A caller owns one output sink `out` (a Vec<u8>, a NullOutput, or a      *)
(* sink whose operations can fail) and calls encode_into /                 *)
(* encode_string_into on it; `call` records the last call made (its        *)
(* input, the sink before it, what it returned).  Every function of the    *)
(* encoder is an operator that threads the sink through its body and       *)
(* returns a Result; `?` is the early return on a result that is not ok.   *)
(*                                                                         *)
(* Bytes are the integers 0..255, texts and blobs are sequences of bytes.  *)
(* A u64 is four 16-bit limbs, least significant first, so that the top    *)
(* of the u64 range is a value of the model.                               *)
(***************************************************************************)
EXTENDS Integers, Sequences, FiniteSets, TLC

VARIABLES
    out,              \* the caller's sink
    call,             \* the last call: what was called, on what, what came back
    overflow_checks   \* the build profile: do integer overflows panic (debug) or wrap (release)

vars == <<out, call, overflow_checks>>

---------------------------------------------------------------------------
\* Bounds of the model.

MaxStrLen == 5         \* texts (addresses, String arguments) have 0..MaxStrLen bytes
MaxBlobLen == 4        \* blobs have 0..MaxBlobLen bytes
MaxArrayDepth == 2     \* Array arguments nest up to 1 + MaxArrayDepth deep
MaxBundleDepth == 2    \* bundles nest up to 1 + MaxBundleDepth deep
MaxPre == 4            \* a call is made on a sink that holds at most MaxPre bytes
MaxFailAt == 12        \* a fallible sink fails its k-th operation, k in 0..MaxFailAt
MaxPadSmall == 40      \* pad is called on 0..MaxPadSmall ...
MaxPadTop == 40        \* ... and on the MaxPadTop + 1 largest u64 values

---------------------------------------------------------------------------
\* Bytes and fixed-width integers.

Max(a, b) == IF a >= b THEN a ELSE b

Zeros(n) == [k \in 1..n |-> 0]

\* &s[..n]
Prefix(s, n) == SubSeq(s, 1, n)

\* Vec::resize(n, x)
Resize(v, n, x) == [k \in 1..n |-> IF k <= Len(v) THEN v[k] ELSE x]

RECURSIVE Shr8(_, _)
\* x >> (8 * k), arithmetic
Shr8(x, k) == IF k = 0 THEN x ELSE Shr8(x \div 256, k - 1)

\* The n low bytes of x in two's complement, most significant first:
\* (x as uN).to_be_bytes() with N = 8 * n.
to_be_bytes(x, n) == [k \in 1..n |-> Shr8(x, n - k) % 256]

LimbBase == 256 * 256

\* usize -> u64 (`as u64`), for a usize the model can hold
AsU64(n) ==
    <<n % LimbBase, (n \div LimbBase) % LimbBase, 0, 0>>

\* u64 -> usize (`as usize`) on a 64-bit target
AsUsize(u) ==
    u[1] + LimbBase * (u[2] + LimbBase * (u[3] + LimbBase * u[4]))

\* What a panicking call leaves in place of its value.
Panic == <<>>

\* u % m for a small m
U64Rem(u, m) ==
    ((((((u[4] % m) * LimbBase + u[3]) % m) * LimbBase + u[2]) % m) * LimbBase + u[1]) % m

\* u + k on u64, k small: panics on overflow when the build checks overflow,
\* wraps around otherwise.
U64Add(u, k) ==
    LET s1 == u[1] + k
        s2 == u[2] + (s1 \div LimbBase)
        s3 == u[3] + (s2 \div LimbBase)
        s4 == u[4] + (s3 \div LimbBase)
        wrapped == <<s1 % LimbBase, s2 % LimbBase, s3 % LimbBase, s4 % LimbBase>>
    IN  IF s4 >= LimbBase /\ overflow_checks THEN Panic ELSE wrapped

\* pad with the remainder added instead of its complement
padAddsRemainder(pos) ==
    LET d == U64Rem(pos, 4)
    IN  IF d = 0 THEN pos ELSE U64Add(pos, d)

\* pub fn pad(pos: u64) -> u64
pad(pos) ==
    LET d == U64Rem(pos, 4)
    IN  IF d = 0 THEN pos ELSE U64Add(pos, 4 - d)

---------------------------------------------------------------------------
\* Results and sinks.

Ok(o, v) == [out |-> o, ok |-> TRUE, val |-> v]
Err(o, e) == [out |-> o, ok |-> FALSE, val |-> e]

\* ()
Unit == <<>>

\* The `?` of `let r = <expr>?; <rest>`: the rest runs on an Ok, an Err is
\* returned as it is.
Try(r, rest(_)) == IF r.ok THEN rest(r) ELSE r

\* A sink: its kind; the bytes it holds and its capacity (Vec, fallible
\* sink); the operations made on it so far and the one that fails (fallible
\* sink); and `log`, the history of the operations of the current call.
Sink(kind, failAt) ==
    [kind |-> kind, data |-> <<>>, cap |-> 0, nops |-> 0, failAt |-> failAt,
     log |-> <<>>]

\* Vec::new()
VecNew == Sink("Vec", -1)
NullOutput == Sink("Null", -1)
FallibleNew(k) == Sink("Fallible", k)

\* The capacity of a Vec<u8> after it made room for `additional` more bytes
\* (amortized growth).
VecGrow(v, additional) ==
    IF v.cap - Len(v.data) >= additional
    THEN v.cap
    ELSE Max(Max(2 * v.cap, Len(v.data) + additional), 8)

\* allocate that places the placeholder at the capacity
VecAllocateAtCapacity(v, size) ==
    LET start == v.cap
        end == start + size
    IN  Ok([v EXCEPT !.data = Resize(@, end, 0),
                     !.cap = Max(v.cap, end)], <<start, end>>)

VecAllocate(v, size) ==
    LET start == Len(v.data)
        end == start + size
    IN  Ok([v EXCEPT !.data = Resize(@, end, 0),
                     !.cap = VecGrow(v, end - start)], <<start, end>>)

VecReserve(v, size) == Ok([v EXCEPT !.cap = VecGrow(v, size)], Unit)

\* rewrite that copies to the front of the Vec, whatever the placeholder
VecRewriteAtFront(v, mark, data) ==
    Ok([v EXCEPT !.data = [k \in 1..Len(v.data) |->
                              IF k <= Len(data) THEN data[k] ELSE v.data[k]]], Unit)

\* self[start..end].copy_from_slice(data)
VecRewrite(v, mark, data) ==
    LET start == mark[1]
        end == mark[2]
    IN  Ok([v EXCEPT !.data = [k \in 1..Len(v.data) |->
                                  IF start < k /\ k <= end
                                  THEN data[k - start] ELSE v.data[k]]], Unit)

VecWrite(v, data) ==
    Ok([v EXCEPT !.data = @ \o data, !.cap = VecGrow(v, Len(data))], Len(data))

NullAllocate(o, size) == Ok(o, Unit)
NullRewrite(o, mark, data) == Ok(o, Unit)
NullWrite(o, data) == Ok(o, Len(data))
\* the trait's default reserve
DefaultReserve(o, size) == Ok(o, Unit)

\* A sink of the caller's whose operation number failAt returns an error
\* and leaves the sink as it was; its other operations are the Vec's.
SinkError(o, op) == [op |-> op, at |-> o.nops]
Counted(o) == [o EXCEPT !.nops = @ + 1]
Fallible(o, op, r) ==
    IF o.nops = o.failAt
    THEN Err(Counted(o), SinkError(o, op))
    ELSE [r EXCEPT !.out = Counted(@)]

\* The history of the call: one entry per operation made on the sink, with
\* the bytes and the size it was given, its placeholder (the one allocate
\* returned, the one rewrite was given) and whether it succeeded.
Logged(r, op, data, size, ph) ==
    [r EXCEPT !.out.log = Append(@, [op |-> op, data |-> data, size |-> size,
                                     ph |-> ph, ok |-> r.ok])]

\* Output::allocate
allocate(o, size) ==
    LET r == CASE o.kind = "Vec" -> VecAllocate(o, size)
               [] o.kind = "Null" -> NullAllocate(o, size)
               [] o.kind = "Fallible" -> Fallible(o, "allocate", VecAllocate(o, size))
    IN  Logged(r, "allocate", <<>>, size, IF r.ok THEN r.val ELSE <<>>)

\* Output::rewrite
rewrite(o, mark, data) ==
    Logged(CASE o.kind = "Vec" -> VecRewrite(o, mark, data)
             [] o.kind = "Null" -> NullRewrite(o, mark, data)
             [] o.kind = "Fallible" -> Fallible(o, "rewrite", VecRewrite(o, mark, data)),
           "rewrite", data, Len(data), mark)

\* Output::write
write(o, data) ==
    Logged(CASE o.kind = "Vec" -> VecWrite(o, data)
             [] o.kind = "Null" -> NullWrite(o, data)
             [] o.kind = "Fallible" -> Fallible(o, "write", VecWrite(o, data)),
           "write", data, Len(data), <<>>)

\* Output::reserve
reserve(o, size) ==
    Logged(CASE o.kind = "Vec" -> VecReserve(o, size)
             [] o.kind = "Null" -> DefaultReserve(o, size)
             [] o.kind = "Fallible" -> Fallible(o, "reserve", VecReserve(o, size)),
           "reserve", <<>>, size, <<>>)

---------------------------------------------------------------------------
\* The encoder.

BundleTag == <<35, 98, 117, 110, 100, 108, 101>>    \* "#bundle"
Comma == <<44>>                                      \* b","

\* The type tag of each variant but Bool and Array.
TypeTag ==
    [Int |-> 105, Long |-> 104, Float |-> 102, Double |-> 100, Char |-> 99,
     String |-> 115, Blob |-> 98, Time |-> 116, Midi |-> 109, Color |-> 114,
     Nil |-> 78, Inf |-> 73]
TagTrue == <<84>>                                    \* b"T"
TagFalse == <<70>>                                   \* b"F"
TagOpen == <<91>>                                    \* b"["
TagClose == <<93>>                                   \* b"]"

\* encode_string_into that writes no terminator after a text whose length
\* is a multiple of 4
encode_string_into_unterminated(s, o) ==
    LET padded_len == AsUsize(pad(AsU64(Len(s))))
    IN  Try(reserve(o, padded_len), LAMBDA r1 :
        Try(write(r1.out, s), LAMBDA r2 :
        Try(write(r2.out, Prefix(Zeros(4), padded_len - Len(s))), LAMBDA r3 :
        Ok(r3.out, Len(s) + (padded_len - Len(s))))))

\* pub fn encode_string_into(s, out) -> Result<usize, O::Err>
encode_string_into(s, o) ==
    LET padded_len == AsUsize(pad(U64Add(AsU64(Len(s)), 1)))
    IN  Try(reserve(o, padded_len), LAMBDA r1 :
        Try(write(r1.out, s), LAMBDA r2 :
        Try(write(r2.out, Prefix(Zeros(4), padded_len - Len(s))), LAMBDA r3 :
        Ok(r3.out, Len(s) + (padded_len - Len(s))))))

\* pub fn encode_string(s) -> Vec<u8>
encode_string(s) ==
    LET new_len == AsUsize(pad(U64Add(AsU64(Len(s)), 1)))
    IN  Resize(s, new_len, 0)

\* encode_time_tag_into that drops the result of its first write
encode_time_tag_into_unchecked(time, o) ==
    LET r1 == write(o, to_be_bytes(time.seconds, 4))
    IN  Try(write(r1.out, to_be_bytes(time.fractional, 4)), LAMBDA r2 :
        Ok(r2.out, 8))

\* encode_time_tag_into that counts one of its two words
encode_time_tag_into_miscounted(time, o) ==
    Try(write(o, to_be_bytes(time.seconds, 4)), LAMBDA r1 :
    Try(write(r1.out, to_be_bytes(time.fractional, 4)), LAMBDA r2 :
    Ok(r2.out, 4)))

\* fn encode_time_tag_into(time, out)
encode_time_tag_into(time, o) ==
    Try(write(o, to_be_bytes(time.seconds, 4)), LAMBDA r1 :
    Try(write(r1.out, to_be_bytes(time.fractional, 4)), LAMBDA r2 :
    Ok(r2.out, 8)))

RECURSIVE encode_arg_type(_, _), encode_arg_types(_, _, _, _)

\* for v in &content[k..] { written += encode_arg_type(v, out)?; }
encode_arg_types(content, k, o, written) ==
    IF k > Len(content) THEN Ok(o, written)
    ELSE Try(encode_arg_type(content[k], o), LAMBDA r :
         encode_arg_types(content, k + 1, r.out, written + r.val))

\* encode_arg_type that closes an Array's bracket before its content
encode_arg_type_closes_early(arg, o) ==
    CASE arg.t = "Bool" -> write(o, IF arg.v THEN TagTrue ELSE TagFalse)
      [] arg.t = "Array" ->
            Try(write(o, TagOpen), LAMBDA r1 :
            Try(write(r1.out, TagClose), LAMBDA r3 :
            Try(encode_arg_types(arg.v, 1, r3.out, r1.val + r3.val), LAMBDA r2 :
            Ok(r2.out, r2.val))))
      [] OTHER -> write(o, <<TypeTag[arg.t]>>)

\* fn encode_arg_type(arg, out)
encode_arg_type(arg, o) ==
    CASE arg.t = "Bool" -> write(o, IF arg.v THEN TagTrue ELSE TagFalse)
      [] arg.t = "Array" ->
            Try(write(o, TagOpen), LAMBDA r1 :
            Try(encode_arg_types(arg.v, 1, r1.out, r1.val), LAMBDA r2 :
            Try(write(r2.out, TagClose), LAMBDA r3 :
            Ok(r3.out, r2.val + r3.val))))
      [] OTHER -> write(o, <<TypeTag[arg.t]>>)

RECURSIVE encode_arg_data(_, _), encode_arg_datas(_, _, _, _)

\* for v in &content[k..] { written += encode_arg_data(v, out)?; }
encode_arg_datas(content, k, o, written) ==
    IF k > Len(content) THEN Ok(o, written)
    ELSE Try(encode_arg_data(content[k], o), LAMBDA r :
         encode_arg_datas(content, k + 1, r.out, written + r.val))

\* The Blob arm without the padding bytes
encode_blob_unpadded(x, o) ==
    Try(reserve(o, 4 + Len(x)), LAMBDA r1 :
    Try(write(r1.out, to_be_bytes(Len(x), 4)), LAMBDA r2 :
    Try(write(r2.out, x), LAMBDA r3 :
    Ok(r3.out, 4 + Len(x)))))

\* The Blob arm of encode_arg_data
encode_blob(x, o) ==
    LET padded_blob_length == AsUsize(pad(AsU64(Len(x))))
        padding == padded_blob_length - Len(x)
    IN  Try(reserve(o, 4 + padded_blob_length), LAMBDA r1 :
        Try(write(r1.out, to_be_bytes(Len(x), 4)), LAMBDA r2 :
        Try(write(r2.out, x), LAMBDA r3 :
        IF padding > 0
        THEN Try(write(r3.out, Prefix(Zeros(3), padding)), LAMBDA r4 :
             Ok(r4.out, 4 + padded_blob_length))
        ELSE Ok(r3.out, 4 + padded_blob_length))))

\* The bytes an argument without nested content writes in one piece.
DataBytes(arg) ==
    CASE arg.t = "Int" -> to_be_bytes(arg.v, 4)
      [] arg.t = "Long" -> to_be_bytes(arg.v, 8)
      [] arg.t = "Float" -> to_be_bytes(arg.v, 4)
      [] arg.t = "Double" -> to_be_bytes(arg.v.hi, 4) \o to_be_bytes(arg.v.lo, 4)
      [] arg.t = "Char" -> to_be_bytes(arg.v, 4)
      [] arg.t = "Midi" -> <<arg.v.port, arg.v.status, arg.v.data1, arg.v.data2>>
      [] arg.t = "Color" -> <<arg.v.red, arg.v.green, arg.v.blue, arg.v.alpha>>

\* fn encode_arg_data(arg, out)
encode_arg_data(arg, o) ==
    CASE arg.t = "String" -> encode_string_into(arg.v, o)
      [] arg.t = "Blob" -> encode_blob(arg.v, o)
      [] arg.t = "Time" -> encode_time_tag_into(arg.v, o)
      [] arg.t = "Bool" -> Ok(o, 0)
      [] arg.t = "Nil" -> Ok(o, 0)
      [] arg.t = "Inf" -> Ok(o, 0)
      [] arg.t = "Array" -> encode_arg_datas(arg.v, 1, o, 0)
      [] OTHER -> write(o, DataBytes(arg))

\* encode_message that pads the type tags after it wrote the data
encode_message_data_first(msg, o) ==
    Try(encode_string_into(msg.addr, o), LAMBDA r1 :
    Try(write(r1.out, Comma), LAMBDA r2 :
    Try(encode_arg_types(msg.args, 1, r2.out, r1.val + r2.val), LAMBDA r3 :
    Try(encode_arg_datas(msg.args, 1, r3.out, r3.val), LAMBDA r5 :
    Try(write(r5.out, Prefix(Zeros(4),
                AsUsize(pad(U64Add(AsU64(r3.val), 1))) - r3.val)), LAMBDA r4 :
    Ok(r4.out, r5.val + r4.val))))))

\* fn encode_message(msg, out)
encode_message(msg, o) ==
    Try(encode_string_into(msg.addr, o), LAMBDA r1 :
    Try(write(r1.out, Comma), LAMBDA r2 :
    Try(encode_arg_types(msg.args, 1, r2.out, r1.val + r2.val), LAMBDA r3 :
    Try(write(r3.out, Prefix(Zeros(4),
                AsUsize(pad(U64Add(AsU64(r3.val), 1))) - r3.val)), LAMBDA r4 :
    encode_arg_datas(msg.args, 1, r4.out, r3.val + r4.val)))))

RECURSIVE encode_bundle(_, _), encode_bundle_content(_, _, _, _)

\* The element of a bundle: both arms of the match make the same calls.
encode_element(packet, o) ==
    IF packet.kind = "Message"
    THEN encode_message(packet, o)
    ELSE encode_bundle(packet, o)

\* The loop with every length written after the elements that follow
encode_bundle_content_patches_late(content, k, o, written) ==
    IF k > Len(content) THEN Ok(o, written)
    ELSE Try(allocate(o, 4), LAMBDA len_place :
         Try(encode_element(content[k], len_place.out), LAMBDA e :
         Try(encode_bundle_content(content, k + 1, e.out, written + 4 + e.val), LAMBDA rest :
         Try(rewrite(rest.out, len_place.val, to_be_bytes(e.val, 4)), LAMBDA w :
         Ok(w.out, rest.val)))))

\* The loop with the length field counted in the length it writes
encode_bundle_content_counts_prefix(content, k, o, written) ==
    IF k > Len(content) THEN Ok(o, written)
    ELSE Try(allocate(o, 4), LAMBDA len_place :
         Try(encode_element(content[k], len_place.out), LAMBDA e :
         Try(rewrite(e.out, len_place.val, to_be_bytes(4 + e.val, 4)), LAMBDA w :
         encode_bundle_content(content, k + 1, w.out, written + 4 + e.val))))

\* for packet in &content[k..] { allocate; encode; rewrite }
encode_bundle_content(content, k, o, written) ==
    IF k > Len(content) THEN Ok(o, written)
    ELSE Try(allocate(o, 4), LAMBDA len_place :
         Try(encode_element(content[k], len_place.out), LAMBDA e :
         Try(rewrite(e.out, len_place.val, to_be_bytes(e.val, 4)), LAMBDA w :
         encode_bundle_content(content, k + 1, w.out, written + 4 + e.val))))

\* fn encode_bundle(bundle, out)
encode_bundle(bundle, o) ==
    Try(encode_string_into(BundleTag, o), LAMBDA r1 :
    Try(encode_time_tag_into(bundle.timetag, r1.out), LAMBDA r2 :
    encode_bundle_content(bundle.content, 1, r2.out, r1.val + r2.val)))

\* pub fn encode_into(packet, out)
encode_into(packet, o) ==
    IF packet.kind = "Message"
    THEN encode_message(packet, o)
    ELSE encode_bundle(packet, o)

\* pub fn encode(packet) -> Result<Vec<u8>>: the Ok value
encode(packet) == encode_into(packet, VecNew).out.data

---------------------------------------------------------------------------
\* The values the caller encodes.  A Float is given by its IEEE-754 bits,
\* a Double by the two 32-bit halves of its bits.

Str(n) == [k \in 1..n |-> IF k = 1 THEN 47 ELSE 95 + k]    \* "/abcd..." cut to n bytes
Blob(n) == [k \in 1..n |-> 255 - k]

Arg(t, v) == [t |-> t, v |-> v]
ArrayOf(content) == Arg("Array", content)
TimeOf(s, f) == [seconds |-> s, fractional |-> f]

Int42 == Arg("Int", 42)
Nil == Arg("Nil", Unit)
Inf == Arg("Inf", Unit)
BoolT == Arg("Bool", TRUE)
BoolF == Arg("Bool", FALSE)
Double123 == Arg("Double", [hi |-> 1072934420, lo |-> 2061584302])     \* 1.23
Double321 == Arg("Double", [hi |-> 1074377687, lo |-> 171798692])      \* 3.21

Scalars ==
    << Int42, Arg("Int", -1), Arg("Long", 4242), Arg("Long", -2),
       Arg("Float", 1067282596), Double123, Arg("Double", [hi |-> -1074790400, lo |-> 0]),
       Arg("Char", 97), Arg("Char", 128512),
       Arg("Time", TimeOf(1, 2147483647)),
       Arg("Midi", [port |-> 1, status |-> 144, data1 |-> 60, data2 |-> 127]),
       Arg("Color", [red |-> 255, green |-> 128, blue |-> 0, alpha |-> 1]),
       BoolT, BoolF, Nil, Inf >>

Strings == [n \in 1..(MaxStrLen + 1) |-> Arg("String", Str(n - 1))]
Blobs == [n \in 1..(MaxBlobLen + 1) |-> Arg("Blob", Blob(n - 1))]

RECURSIVE Nested(_)
\* An Array that holds d further levels of Array.
Nested(d) ==
    IF d = 0 THEN ArrayOf(<<Nil, BoolT>>)
    ELSE ArrayOf(<<BoolF, Nested(d - 1), Int42, Inf>>)

ScenarioD == ArrayOf(<<Int42, ArrayOf(<<Double123, Double321>>), Arg("String", Str(1))>>)

Arrays ==
    << ArrayOf(<<>>), ArrayOf(<<ArrayOf(<<>>)>>), ScenarioD,
       ArrayOf(<<Arg("String", Str(3)), Arg("Blob", Blob(1)), ArrayOf(<<Nil>>), ArrayOf(<<Inf, BoolF>>)>>) >>
    \o [d \in 1..(MaxArrayDepth + 1) |-> Nested(d - 1)]

Leaves == Scalars \o Strings \o Blobs \o Arrays

Mixed ==
    << <<BoolT, Int42, Nil, Arg("String", Str(3)), Inf>>,
       <<Arg("String", Str(4)), Arg("Blob", Blob(1)), BoolF>>,
       <<Nested(1), Arg("Long", -2), ArrayOf(<<>>)>>,
       <<Int42, Int42, Int42>> >>

ArgLists == << <<>> >> \o [k \in 1..Len(Leaves) |-> <<Leaves[k]>>] \o Mixed

Message(addr, args) == [kind |-> "Message", addr |-> addr, args |-> args]
Bundle(timetag, content) == [kind |-> "Bundle", timetag |-> timetag, content |-> content]

Messages ==
    [n \in 1..(MaxStrLen + 1) |-> Message(Str(n - 1), <<>>)]
    \o [n \in 1..(MaxStrLen + 1) |-> Message(Str(n - 1), Mixed[1])]
    \o [k \in 1..Len(ArgLists) |-> Message(Str(2), ArgLists[k])]

\* The messages bundles are made of.
Elements ==
    << Message(Str(2), <<>>), Message(Str(4), <<Arg("String", Str(3))>>),
       Message(Str(1), <<ScenarioD, BoolT>>) >>

T0 == TimeOf(0, 0)
T1 == TimeOf(1, 2147483647)

RECURSIVE Nest(_)
\* A bundle that holds d further levels of bundle.
Nest(d) ==
    IF d = 0 THEN Bundle(T1, <<Elements[2]>>)
    ELSE Bundle(T0, <<Elements[1], Nest(d - 1), Elements[3]>>)

Bundles ==
    << Bundle(T0, <<>>), Bundle(T1, <<Bundle(T0, <<>>)>>),
       Bundle(T0, <<Bundle(T0, <<>>), Bundle(T1, <<>>)>>) >>
    \o [k \in 1..Len(Elements) |-> Bundle(T0, <<Elements[k]>>)]
    \o [k \in 1..(Len(Elements) * Len(Elements)) |->
           Bundle(T1, <<Elements[1 + ((k - 1) \div Len(Elements))],
                        Elements[1 + ((k - 1) % Len(Elements))]>>)]
    \o [d \in 1..(MaxBundleDepth + 1) |-> Nest(d - 1)]
    \o [d \in 1..MaxBundleDepth |-> Bundle(T0, <<Nest(d - 1), Nest(d - 1)>>)]

Packets == Messages \o Bundles

\* u64 values: the small ones, the largest ones, and some whose low limbs
\* carry.
U64Max == <<LimbBase - 1, LimbBase - 1, LimbBase - 1, LimbBase - 1>>
PadInputs ==
    { AsU64(n) : n \in 0..MaxPadSmall }
    \cup { [U64Max EXCEPT ![1] = @ - k] : k \in 0..MaxPadTop }
    \cup { <<LimbBase - 1 - k, LimbBase - 1, h, 0>> : k \in 0..7, h \in {0, LimbBase - 1} }
    \cup { <<LimbBase - 1 - k, LimbBase - 1, LimbBase - 1, 7>> : k \in 0..7 }

---------------------------------------------------------------------------
\* The caller.

Called(op, arg, before, r) ==
    [op |-> op, arg |-> arg, before |-> before, ok |-> r.ok, val |-> r.val,
     log |-> r.out.log]

NoCall(op) == Called(op, 0, VecNew, Ok(VecNew, Unit))

Unlogged(o) == [o EXCEPT !.log = <<>>]

\* A sink that returned an error holds a partial write: the caller discards
\* it.  Calls are made on sinks that hold at most MaxPre bytes.
Usable(o) ==
    /\ ~(o.kind = "Fallible" /\ o.nops > o.failAt)
    /\ Len(o.data) <= MaxPre

Init ==
    /\ overflow_checks \in BOOLEAN
    /\ out = VecNew
    /\ call = NoCall("none")

\* let mut buffer = Vec::new();
NewVec ==
    /\ out' = VecNew
    /\ call' = NoCall("Vec::new")
    /\ UNCHANGED overflow_checks

\* let mut out = NullOutput;
NewNull ==
    /\ out' = NullOutput
    /\ call' = NoCall("NullOutput")
    /\ UNCHANGED overflow_checks

\* The caller plugs in a sink whose k-th operation fails.
NewFallible ==
    \E k \in 0..MaxFailAt :
        /\ out' = FallibleNew(k)
        /\ call' = NoCall("Fallible")
        /\ UNCHANGED overflow_checks

\* buffer.clear()
Clear ==
    /\ out.kind = "Vec"
    /\ out' = [out EXCEPT !.data = <<>>]
    /\ call' = NoCall("clear")
    /\ UNCHANGED overflow_checks

\* encode_into(&packet, &mut out)
EncodeInto ==
    \E i \in 1..Len(Packets) :
        /\ Usable(out)
        /\ LET r == encode_into(Packets[i], Unlogged(out))
           IN  /\ out' = Unlogged(r.out)
               /\ call' = Called("encode_into", i, Unlogged(out), r)
        /\ UNCHANGED overflow_checks

\* encode_string_into(s, &mut out)
EncodeStringInto ==
    \E n \in 0..MaxStrLen :
        /\ Usable(out)
        /\ LET r == encode_string_into(Str(n), Unlogged(out))
           IN  /\ out' = Unlogged(r.out)
               /\ call' = Called("encode_string_into", n, Unlogged(out), r)
        /\ UNCHANGED overflow_checks

Next ==
    \/ NewVec
    \/ NewNull
    \/ NewFallible
    \/ Clear
    \/ EncodeInto
    \/ EncodeStringInto

Spec == Init /\ [][Next]_vars

\* The caller hands in a Vec<u8> that already holds bytes (a buffer it
\* reuses part of): at most MaxPre bytes, with or without spare capacity.
PreBytes == {0, 255}
Spare == {0, 3}

VecHolding ==
    \E n \in 0..MaxPre :
        \E pre \in [1..n -> PreBytes] :
            \E spare \in Spare :
                /\ out' = [VecNew EXCEPT !.data = pre, !.cap = n + spare]
                /\ call' = NoCall("Vec")
                /\ UNCHANGED overflow_checks

NextAppend ==
    \/ VecHolding
    \/ EncodeInto
    \/ EncodeStringInto

SpecAppend == Init /\ [][NextAppend]_vars

\* pad(n), on its own: the caller holds no sink.
PadCall ==
    \E n \in PadInputs :
        /\ call' = [NoCall("pad") EXCEPT !.arg = n, !.val = pad(n)]
        /\ UNCHANGED <<out, overflow_checks>>

NextPad == PadCall

SpecPad == Init /\ [][NextPad]_vars

---------------------------------------------------------------------------
\* What the claims are stated with.

ThePacket == Packets[call.arg]

\* The bytes the last call added to the sink.
Added == SubSeq(out.data, Len(call.before.data) + 1, Len(out.data))

HoldsBytes(o) == o.kind \in {"Vec", "Fallible"}

EncodedInto == call.op = "encode_into"

\* The value of four big-endian bytes.
FromBE(b) == ((b[1] * 256 + b[2]) * 256 + b[3]) * 256 + b[4]

RECURSIVE Concat(_)
Concat(seqs) == IF seqs = <<>> THEN <<>> ELSE Head(seqs) \o Concat(Tail(seqs))

RECURSIVE Sum(_)
Sum(ns) == IF ns = <<>> THEN 0 ELSE Head(ns) + Sum(Tail(ns))

\* The size of a packet as a NullOutput measures it.
Measured(packet) == encode_into(packet, NullOutput).val

---------------------------------------------------------------------------
\* C9 (pad).  u64 values are compared limb by limb; n + k is computed
\* without a width, as five limbs.

Wide(n, k) ==
    LET s1 == n[1] + k
        s2 == n[2] + (s1 \div LimbBase)
        s3 == n[3] + (s2 \div LimbBase)
        s4 == n[4] + (s3 \div LimbBase)
    IN  <<s1 % LimbBase, s2 % LimbBase, s3 % LimbBase, s4 % LimbBase, s4 \div LimbBase>>

\* r is the smallest multiple of 4 that is >= n (LimbBase is a multiple of 4).
IsCeil4(n, r) ==
    /\ r # Panic
    /\ r[1] % 4 = 0
    /\ \E k \in 0..3 : Wide(n, k) = r \o <<0>>

\* n <= 2^64 - 4
BelowTop(n) == \/ \E k \in 2..4 : n[k] < LimbBase - 1
               \/ n[1] <= LimbBase - 4

\* C9, as claimed: for every u64 n, pad(n) is the smallest multiple of 4
\* that is >= n, with no failure and no wrap-around.
C9_PadEveryU64 == call.op = "pad" => IsCeil4(call.arg, call.val)

\* C9, amended: for every n <= 2^64 - 4, pad(n) is the smallest multiple of
\* 4 that is >= n (pad(0)=0, pad(1)=4, pad(4)=4, pad(5)=8, pad(7)=8,
\* pad(8)=8, pad(10)=12); for the three larger n the addition overflows:
\* pad panics where the build checks overflow and returns 0 where it wraps.
C9_PadBelowTop ==
    call.op = "pad" =>
        /\ BelowTop(call.arg) => IsCeil4(call.arg, call.val)
        /\ ~BelowTop(call.arg) =>
               call.val = IF overflow_checks THEN Panic ELSE AsU64(0)
        /\ \A e \in {<<0, 0>>, <<1, 4>>, <<4, 4>>, <<5, 8>>, <<6, 8>>, <<7, 8>>,
                      <<8, 8>>, <<10, 12>>} :
               call.arg = AsU64(e[1]) => call.val = AsU64(e[2])

\* pad has rounded up across a limb: 2^32 - 3 to 2^32.
C9_Witness ==
    /\ call.op = "pad"
    /\ call.arg = <<LimbBase - 3, LimbBase - 1, 0, 0>>
    /\ call.val = <<0, 0, 1, 0>>

---------------------------------------------------------------------------
\* C4: encode_string(s) and encode_string_into(s, out) produce the bytes of
\* s followed by k NUL bytes, k = pad(len(s) + 1) - len(s) = 4 - len(s) % 4,
\* so 1 <= k <= 4 and the length is a multiple of 4; a text whose length is
\* a multiple of 4 gets 4 NUL bytes; encode_string_into returns len(s) + k.
C4_StringPadding ==
    (call.op = "encode_string_into" /\ call.ok) =>
        LET s == Str(call.arg)
            k == 4 - (Len(s) % 4)
        IN  /\ 1 <= k /\ k <= 4
            /\ (Len(s) % 4 = 0) => k = 4
            /\ k = AsUsize(pad(AsU64(Len(s) + 1))) - Len(s)
            /\ call.val = Len(s) + k
            /\ call.val % 4 = 0
            /\ HoldsBytes(out) => Added = s \o Zeros(k)
            /\ encode_string(s) = s \o Zeros(k)

\* A text of 4 bytes was written into a Vec and got 4 NUL bytes.
C4_Witness ==
    /\ call.op = "encode_string_into" /\ call.ok
    /\ out.kind = "Vec"
    /\ call.arg = 4
    /\ Added = Str(4) \o Zeros(4)

---------------------------------------------------------------------------
\* C5: on success encode_into returns the number of bytes it added to the
\* sink (placeholder bytes included), and the count a NullOutput returns for
\* the same packet.
C5_ReturnsBytesAdded ==
    (EncodedInto /\ call.ok) =>
        /\ HoldsBytes(out) => call.val = Len(out.data) - Len(call.before.data)
        /\ call.val = Measured(ThePacket)

\* A bundle with framed elements was appended to a Vec that held bytes.
C5_Witness ==
    /\ EncodedInto /\ call.ok
    /\ out.kind = "Vec"
    /\ Len(call.before.data) > 0
    /\ ThePacket.kind = "Bundle"
    /\ Len(ThePacket.content) >= 2

---------------------------------------------------------------------------
\* Claim C3.

RECURSIVE Aligned(_)
Aligned(packet) ==
    IF packet.kind = "Message"
    THEN LET addr == encode_string_into(packet.addr, NullOutput).val
             data == [k \in 1..Len(packet.args) |->
                         encode_arg_data(packet.args[k], NullOutput).val]
             tags == Measured(packet) - addr - Sum(data)
         IN  /\ addr % 4 = 0 /\ addr > 0
             /\ tags % 4 = 0 /\ tags > 0
             /\ \A k \in 1..Len(data) :
                    /\ data[k] % 4 = 0
                    /\ Len(encode_arg_data(packet.args[k], VecNew).out.data) = data[k]
    ELSE \A k \in 1..Len(packet.content) :
            /\ Measured(packet.content[k]) % 4 = 0
            /\ Len(encode(packet.content[k])) % 4 = 0
            /\ Aligned(packet.content[k])

\* C3: the encoding of every packet is a multiple of 4 bytes long, and so is
\* every field group in it: the address, the padded type-tag string, each
\* argument's data, each framed bundle element.
C3_MultipleOfFour ==
    (EncodedInto /\ call.ok) =>
        /\ call.val % 4 = 0
        /\ HoldsBytes(out) => Len(Added) % 4 = 0
        /\ Len(encode(ThePacket)) % 4 = 0
        /\ Aligned(ThePacket)

\* A message with a blob of 1 byte (3 bytes of padding) was encoded.
C3_Witness ==
    /\ EncodedInto /\ call.ok
    /\ out.kind = "Vec"
    /\ ThePacket.kind = "Message"
    /\ \E k \in 1..Len(ThePacket.args) :
           ThePacket.args[k].t = "Blob" /\ Len(ThePacket.args[k].v) = 1

---------------------------------------------------------------------------
\* Claim C1.

RECURSIVE Framed(_, _, _, _)
\* bytes[pos + 1 ..] holds the elements content[k..], each behind its length.
Framed(bytes, content, k, pos) ==
    IF k > Len(content) THEN pos = Len(bytes)
    ELSE /\ pos + 4 <= Len(bytes)
         /\ LET L == FromBE(SubSeq(bytes, pos + 1, pos + 4))
                body == SubSeq(bytes, pos + 5, pos + 4 + L)
            IN  /\ pos + 4 + L <= Len(bytes)
                /\ L = Measured(content[k])
                /\ body = encode(content[k])
                /\ content[k].kind = "Bundle" => Framed(body, content[k].content, 1, 16)
                /\ Framed(bytes, content, k + 1, pos + 4 + L)

\* C1: in the bytes of every bundle, at any depth, the 4-byte big-endian
\* length before a content element is the byte count of that element's own
\* encoding, which follows it, and the count encode_into returns for that
\* element alone on a NullOutput.
C1_LengthPrefixes ==
    (EncodedInto /\ call.ok /\ HoldsBytes(out) /\ ThePacket.kind = "Bundle") =>
        Framed(Added, ThePacket.content, 1, 16)

\* A bundle whose second element is a bundle with elements of its own was
\* encoded into a Vec.
C1_Witness ==
    /\ EncodedInto /\ call.ok
    /\ out.kind = "Vec"
    /\ ThePacket.kind = "Bundle"
    /\ Len(ThePacket.content) = 3
    /\ ThePacket.content[2].kind = "Bundle"
    /\ Len(ThePacket.content[2].content) = 3

---------------------------------------------------------------------------
\* Claim C2.

\* The bytes of the successful writes of a history, in the order made.
RECURSIVE Writes(_)
Writes(log) ==
    IF log = <<>> THEN <<>>
    ELSE (IF Head(log).op = "write" /\ Head(log).ok THEN Head(log).data ELSE <<>>)
         \o Writes(Tail(log))

TagsOf(arg) == encode_arg_type(arg, VecNew).out.data
DataOf(arg) == encode_arg_data(arg, VecNew).out.data

\* The three field groups of a message.
Groups(msg) ==
    LET tags == Comma \o Concat([k \in 1..Len(msg.args) |-> TagsOf(msg.args[k])])
    IN  [addr |-> msg.addr \o Zeros(4 - (Len(msg.addr) % 4)),
         tags |-> tags \o Zeros(4 - (Len(tags) % 4)),
         data |-> Concat([k \in 1..Len(msg.args) |-> DataOf(msg.args[k])])]

\* C2: encode_message emits the NUL-padded address, then ',' and the type
\* tags of all arguments in argument order and 1 to 4 NUL bytes, then the
\* data of all arguments in the same order; no data byte is written before
\* the whole padded type-tag string.
C2_MessageOrder ==
    (EncodedInto /\ call.ok /\ ThePacket.kind = "Message") =>
        LET g == Groups(ThePacket)
        IN  /\ Writes(call.log) = g.addr \o g.tags \o g.data
            /\ HoldsBytes(out) => Added = g.addr \o g.tags \o g.data
            /\ \A i \in 1..Len(call.log) : call.log[i].op \in {"write", "reserve"}
            \* the writes made before any byte of data hold the address and the tags
            /\ \A i \in 1..Len(call.log) :
                   Len(Writes(SubSeq(call.log, 1, i))) > Len(g.addr) + Len(g.tags)
                   => Len(Writes(SubSeq(call.log, 1, i - 1))) >= Len(g.addr) + Len(g.tags)

\* A message with several arguments, an Array and a text among them, was
\* encoded.
C2_Witness ==
    /\ EncodedInto /\ call.ok
    /\ ThePacket.kind = "Message"
    /\ Len(ThePacket.args) >= 3
    /\ ThePacket.args[1].t = "Array"
    /\ Len(Groups(ThePacket).data) > 8

---------------------------------------------------------------------------
\* Claim C6.

\* The sink of the call, had it been a Vec.
PlainBefore == [call.before EXCEPT !.kind = "Vec"]

RECURSIVE Replay(_, _)
\* The Vec after the operations of a history.
Replay(v, log) ==
    IF log = <<>> THEN v
    ELSE LET e == Head(log)
             r == CASE e.op = "write" -> VecWrite(v, e.data)
                    [] e.op = "reserve" -> VecReserve(v, e.size)
                    [] e.op = "allocate" -> VecAllocate(v, e.size)
                    [] e.op = "rewrite" -> VecRewrite(v, e.ph, e.data)
         IN  Replay(r.out, Tail(log))

\* The history log of a call in which an operation failed, against ref, the
\* history of the same call on a sink that does not fail.
StoppedAt(log, n, ref) ==
    /\ ~call.ok
    /\ ~log[n].ok
    /\ \A i \in 1..(n - 1) : log[i].ok /\ log[i] = ref[i]
    /\ n <= Len(ref)
    /\ log[n].op = ref[n].op
    /\ log[n].data = ref[n].data
    /\ log[n].size = ref[n].size
    /\ call.val = [op |-> log[n].op, at |-> out.failAt]
    /\ out.nops = call.before.nops + n
    /\ out.data = Replay(PlainBefore, SubSeq(log, 1, n - 1)).data

\* C6: when a sink operation returns an error during encode_into, encoding
\* stops at that operation: encode_into returns that error, makes no further
\* operation on the sink, and the sink keeps what was written before.
C6_StopsAtError ==
    EncodedInto =>
        /\ call.ok => \A i \in 1..Len(call.log) : call.log[i].ok
        /\ (\E i \in 1..Len(call.log) : ~call.log[i].ok) =>
               \A ref \in {encode_into(ThePacket, PlainBefore).out.log} :
                   StoppedAt(call.log, Len(call.log), ref)

\* The rewrite of a placeholder failed after its element was written.
C6_Witness ==
    /\ EncodedInto /\ ~call.ok
    /\ call.log[Len(call.log)].op = "rewrite"
    /\ Len(out.data) > 16

---------------------------------------------------------------------------
\* C7: an encode_into on a Vec the caller cleared leaves in it the bytes
\* that the same packet encoded into a fresh Vec gives: nothing of an earlier
\* encode (contents, capacity, placeholder ranges) has an influence.
C7_ReuseAfterClear ==
    (EncodedInto /\ out.kind = "Vec" /\ call.before.data = <<>>) =>
        LET fresh == encode_into(ThePacket, VecNew)
        IN  /\ out.data = fresh.out.data
            /\ out.data = encode(ThePacket)
            /\ call.val = fresh.val
            /\ call.log = fresh.out.log

\* A bundle with elements was encoded into a cleared Vec that kept the
\* capacity of an earlier encode.
C7_Witness ==
    /\ EncodedInto /\ out.kind = "Vec"
    /\ call.before.data = <<>>
    /\ call.before.cap > 16
    /\ ThePacket.kind = "Bundle"
    /\ Len(ThePacket.content) >= 2

---------------------------------------------------------------------------
\* Claim C8.

RECURSIVE ArrayDepth(_)
ArrayDepth(arg) ==
    IF arg.t # "Array" THEN 0
    ELSE LET below == {ArrayDepth(arg.v[k]) : k \in 1..Len(arg.v)} \cup {0}
         IN  1 + (CHOOSE d \in below : \A x \in below : x <= d)

RECURSIVE NumArrays(_)
NumArrays(arg) ==
    IF arg.t # "Array" THEN 0
    ELSE 1 + Sum([k \in 1..Len(arg.v) |-> NumArrays(arg.v[k])])

RECURSIVE BracketDepth(_, _, _)
\* The deepest bracket nesting of tags, from depth d with deepest m so far;
\* -1 when a bracket closes that was not opened or one stays open.
BracketDepth(tags, d, m) ==
    IF tags = <<>> THEN (IF d = 0 THEN m ELSE -1)
    ELSE IF <<Head(tags)>> = TagOpen THEN BracketDepth(Tail(tags), d + 1, Max(m, d + 1))
    ELSE IF <<Head(tags)>> = TagClose
         THEN (IF d = 0 THEN -1 ELSE BracketDepth(Tail(tags), d - 1, m))
    ELSE BracketDepth(Tail(tags), d, m)

Count(seq, x) == Cardinality({k \in 1..Len(seq) : seq[k] = x})

RECURSIVE TagsMirror(_)
\* The tags and the data of arg are those of its structure, at every level.
TagsMirror(arg) ==
    LET data == encode_arg_data(arg, VecNew)
    IN  CASE arg.t = "Array" ->
                /\ TagsOf(arg) = TagOpen
                                 \o Concat([k \in 1..Len(arg.v) |-> TagsOf(arg.v[k])])
                                 \o TagClose
                /\ data.out.data = Concat([k \in 1..Len(arg.v) |-> DataOf(arg.v[k])])
                /\ \A k \in 1..Len(arg.v) : TagsMirror(arg.v[k])
          [] arg.t \in {"Bool", "Nil", "Inf"} ->
                /\ TagsOf(arg) = CASE arg.t = "Nil" -> <<78>>
                                   [] arg.t = "Inf" -> <<73>>
                                   [] arg.t = "Bool" -> IF arg.v THEN <<84>> ELSE <<70>>
                /\ data.ok /\ data.val = 0
                /\ data.out.data = <<>>
                /\ data.out.log = <<>>
          [] OTHER ->
                /\ Len(TagsOf(arg)) = 1
                /\ TagsOf(arg) \notin {TagOpen, TagClose, <<84>>, <<70>>, <<78>>, <<73>>}
                /\ Len(data.out.data) > 0

\* C8: the tags encode_arg_type emits have balanced brackets whose depth is
\* the nesting depth of the Array value, one '[' and one ']' per Array around
\* the tags of its content in order; each Bool, Nil and Inf contributes one
\* tag character ('T'/'F', 'N', 'I') and no data byte, also inside arrays.
C8_ArrayTags ==
    (EncodedInto /\ call.ok /\ ThePacket.kind = "Message") =>
        \A k \in 1..Len(ThePacket.args) :
            LET arg == ThePacket.args[k]
                tags == TagsOf(arg)
            IN  /\ BracketDepth(tags, 0, 0) = ArrayDepth(arg)
                /\ Count(tags, 91) = NumArrays(arg)
                /\ Count(tags, 93) = NumArrays(arg)
                /\ TagsMirror(arg)

\* An Array three levels deep that holds Bool, Nil and Inf was encoded.
C8_Witness ==
    /\ EncodedInto /\ call.ok
    /\ ThePacket.kind = "Message"
    /\ Len(ThePacket.args) = 1
    /\ ArrayDepth(ThePacket.args[1]) = 3
    /\ TagsOf(ThePacket.args[1]) = <<91, 70, 91, 70, 91, 78, 84, 93, 105, 73, 93, 105, 73, 93>>

---------------------------------------------------------------------------
\* Claim C10.

RECURSIVE ElementsOf(_)
\* The content elements of a packet in the order they are encoded.
ElementsOf(packet) ==
    IF packet.kind = "Message" THEN <<>>
    ELSE Concat([k \in 1..Len(packet.content) |->
                    <<packet.content[k]>> \o ElementsOf(packet.content[k])])

\* One entry e of the history, read with `pending` the placeholders not yet
\* rewritten (innermost last), len the bytes the sink holds, nalloc the
\* placeholders allocated so far and elems the elements of the packet: good
\* stays true while every allocate and rewrite is as claimed.
PatchStep(st, e, elems) ==
    IF ~st.good THEN st
    ELSE CASE e.op = "allocate" ->
                [good |-> /\ e.size = 4
                          /\ st.nalloc < Len(elems)
                          /\ e.ok => e.ph = <<st.len, st.len + 4>>,
                 pending |-> IF e.ok
                             THEN Append(st.pending, [ph |-> e.ph, start |-> st.len + 4,
                                                      j |-> st.nalloc + 1])
                             ELSE st.pending,
                 len |-> st.len + (IF e.ok THEN 4 ELSE 0),
                 nalloc |-> st.nalloc + 1]
           [] e.op = "rewrite" ->
                IF st.pending = <<>> THEN [st EXCEPT !.good = FALSE]
                ELSE LET top == st.pending[Len(st.pending)]
                     IN  [st EXCEPT
                            !.good = /\ e.ph = top.ph
                                     /\ Len(e.data) = 4
                                     /\ FromBE(e.data) = st.len - top.start
                                     /\ FromBE(e.data) = Measured(elems[top.j]),
                            !.pending = SubSeq(@, 1, Len(@) - 1)]
           [] e.op = "write" ->
                [st EXCEPT !.len = @ + (IF e.ok THEN Len(e.data) ELSE 0)]
           [] OTHER -> st

RECURSIVE PatchFold(_, _, _, _, _)
\* PatchStep over the entries lo..hi of the history.
PatchFold(log, lo, hi, st, elems) ==
    IF lo > hi THEN st
    ELSE IF lo = hi THEN PatchStep(st, log[lo], elems)
    ELSE LET mid == (lo + hi) \div 2
             left == PatchFold(log, lo, mid, st, elems)
         IN  IF left.good THEN PatchFold(log, mid + 1, hi, left, elems) ELSE left

Patched(log, len, elems) ==
    LET end == PatchFold(log, 1, Len(log),
                         [good |-> TRUE, pending |-> <<>>, len |-> len, nalloc |-> 0],
                         elems)
    IN  /\ end.good
        /\ call.ok => (end.pending = <<>> /\ end.nalloc = Len(elems))

\* C10: every placeholder allocate(4) returned is passed to rewrite once,
\* with 4 bytes, after the whole element it frames was written and before
\* the allocate of the next sibling (inner placeholders before the enclosing
\* one); on success none is left; rewrite is given no other range.
C10_PlaceholdersPatched ==
    (EncodedInto /\ HoldsBytes(out)) =>
        Patched(call.log, Len(call.before.data), ElementsOf(ThePacket))

\* A bundle was encoded in which a placeholder was allocated and rewritten
\* while the placeholder of the enclosing element was pending.
C10_Witness ==
    /\ EncodedInto /\ call.ok /\ out.kind = "Vec"
    /\ \E i, j, k, l \in 1..Len(call.log) :
           /\ i < j /\ j < k /\ k < l
           /\ call.log[i].op = "allocate"
           /\ call.log[j].op = "allocate"
           /\ call.log[k].op = "rewrite" /\ call.log[k].ph = call.log[j].ph
           /\ call.log[l].op = "rewrite" /\ call.log[l].ph = call.log[i].ph

---------------------------------------------------------------------------
\* Claim C11.

\* The indices (from 0) at which two byte sequences of one length differ.
Touched(a, b) == { k - 1 : k \in { j \in 1..Len(a) : a[j] # b[j] } }

\* One entry e of the history, replayed on the Vec st.v that held n bytes
\* when the call began; allocs are the ranges allocate returned so far.
\* good stays true while the first n bytes stay as they were, the Vec only
\* grows, and every rewrite stays inside a range allocate returned.
AppendStep(st, e, n) ==
    IF ~st.good THEN st
    ELSE LET v == st.v
             w == Replay(v, <<e>>)
             kept == /\ Len(w.data) >= Len(v.data)
                     /\ SubSeq(w.data, 1, n) = SubSeq(v.data, 1, n)
         IN  CASE e.op = "allocate" ->
                    [good |-> /\ kept
                              /\ e.ph = <<Len(v.data), Len(v.data) + e.size>>
                              /\ e.ph[1] >= n
                              /\ SubSeq(w.data, 1, Len(v.data)) = v.data,
                     v |-> w, allocs |-> st.allocs \cup {e.ph}]
               [] e.op = "rewrite" ->
                    [good |-> /\ kept
                              /\ e.ph \in st.allocs
                              /\ e.ph[1] >= n
                              /\ e.ph[2] <= Len(v.data)
                              /\ Len(e.data) = e.ph[2] - e.ph[1]
                              /\ Len(w.data) = Len(v.data)
                              /\ Touched(v.data, w.data) \subseteq e.ph[1]..(e.ph[2] - 1),
                     v |-> w, allocs |-> st.allocs]
               [] e.op = "write" ->
                    [good |-> kept /\ w.data = v.data \o e.data,
                     v |-> w, allocs |-> st.allocs]
               [] OTHER ->
                    [good |-> kept /\ w.data = v.data,
                     v |-> w, allocs |-> st.allocs]

RECURSIVE AppendFold(_, _, _, _, _)
\* AppendStep over the entries lo..hi of the history.
AppendFold(log, lo, hi, st, n) ==
    IF lo > hi THEN st
    ELSE IF lo = hi THEN AppendStep(st, log[lo], n)
    ELSE LET mid == (lo + hi) \div 2
             left == AppendFold(log, lo, mid, st, n)
         IN  IF left.good THEN AppendFold(log, mid + 1, hi, left, n) ELSE left

OnlyAppends(log, before) ==
    \A end \in {AppendFold(log, 1, Len(log),
                           [good |-> TRUE, v |-> before, allocs |-> {}],
                           Len(before.data))} :
        /\ end.good
        /\ end.v.data = out.data

\* C11: a successful encode_into on a Vec<u8> that holds n bytes only
\* appends: the first n bytes stay as they were, the bytes from index n on
\* are the encoding of the same packet into an empty Vec<u8>, and every
\* rewrite of a length placeholder changes only bytes at indices >= n inside
\* a range that allocate returned during the call.
C11_OnlyAppends ==
    (EncodedInto /\ call.ok /\ out.kind = "Vec") =>
        /\ Len(out.data) >= Len(call.before.data)
        /\ SubSeq(out.data, 1, Len(call.before.data)) = call.before.data
        /\ Added = encode_into(ThePacket, VecNew).out.data
        /\ Added = encode(ThePacket)
        /\ OnlyAppends(call.log, call.before)

\* A nested bundle was encoded into a Vec that held 3 bytes, none of them
\* zero: its placeholders lie at unaligned indices behind them.
C11_Witness ==
    /\ EncodedInto /\ call.ok /\ out.kind = "Vec"
    /\ call.before.data = <<255, 255, 255>>
    /\ SubSeq(out.data, 1, 3) = <<255, 255, 255>>
    /\ \E i, j \in 1..Len(call.log) :
           /\ i < j
           /\ call.log[i].op = "rewrite" /\ call.log[i].ph[1] > 3
           /\ call.log[j].op = "rewrite" /\ call.log[j].ph[1] < call.log[i].ph[1]
           /\ FromBE(call.log[j].data) > 0

====
